---------------------------- MODULE Spec2Model ----------------------------
(***************************************************************************)
(* Model of the JSON core of the transport catalogue: the Node value       *)
(* (json.h), the Builder state machine (json_builder.h/.cpp) and the       *)
(* parser and printer (json.cpp).                                          *)
(*                                                                         *)
(* A Node is a record [t |-> tag, v |-> payload]; the tag is the active    *)
(* alternative of the std::variant.  Text is a sequence of one-character   *)
(* strings.  A std::string is such a sequence as well.  A Dict is a        *)
(* function from keys (strings) to Nodes, an Array a sequence of Nodes.    *)
(* A Node* held by the builder's stack is the path from root_ to the node. *)
(***************************************************************************)
EXTENDS Integers, Sequences, FiniteSets, TLC

VARIABLES
    root_,          \* Builder::root_
    nodes_stack_,   \* Builder::nodes_stack_ : the open positions, as paths
    lastCall,       \* the last builder call: its name and whether it returned
    result,         \* what the last successful Build() returned
    nbuilt,         \* number of Build() calls that returned a Node
    doc,            \* the Value under test
    calls,          \* the builder calls made so far (well-formed runs)
    frames,         \* the containers the calls made so far have left open
    pc,             \* phase of a well-formed run / of a print-and-load run
    text,           \* the character stream: a source text or what Print wrote
    loaded,         \* outcome of Load on text
    finished        \* the positions closed or stored so far, with their values

vars == <<root_, nodes_stack_, lastCall, result, nbuilt, doc, calls, frames, pc,
          text, loaded, finished>>

---------------------------------------------------------------------------
(* Bounds of the model *)

MaxDepth == 3
MaxNodes == 4
MaxBuilds == 2
MaxCalls == 7
MaxLen == 2
MaxTextLen == 4
MaxItems == 4

---------------------------------------------------------------------------
(* json.h: the Node variant *)

Null == [t |-> "null", v |-> 0]
BoolNode(x) == [t |-> "bool", v |-> x]
IntNode(n) == [t |-> "int", v |-> n]
StrNode(s) == [t |-> "string", v |-> s]
ArrayNode(s) == [t |-> "array", v |-> s]
DictNode(f) == [t |-> "dict", v |-> f]

IsNull(n) == n.t = "null"
IsArray(n) == n.t = "array"
IsDict(n) == n.t = "dict"

Last(s) == s[Len(s)]
Front(s) == SubSeq(s, 1, Len(s) - 1)

\* A step of a path: into a Dict by key (idx = 0) or into an Array by index.
KeyStep(key) == [key |-> key, idx |-> 0]
IdxStep(i) == [key |-> <<>>, idx |-> i]

RECURSIVE NodeAt(_, _)
\* Dereference of a Node* : the node of tree n at path p.
NodeAt(n, p) ==
    IF p = <<>> THEN n
    ELSE IF p[1].idx = 0 THEN NodeAt(n.v[p[1].key], Tail(p))
    ELSE NodeAt(n.v[p[1].idx], Tail(p))

RECURSIVE Replace(_, _, _)
\* Assignment through a Node* : tree n with the node at path p replaced by x.
Replace(n, p, x) ==
    IF p = <<>> THEN x
    ELSE IF p[1].idx = 0
         THEN DictNode([n.v EXCEPT ![p[1].key] = Replace(n.v[p[1].key], Tail(p), x)])
         ELSE ArrayNode([n.v EXCEPT ![p[1].idx] = Replace(n.v[p[1].idx], Tail(p), x)])

RECURSIVE SumSeq(_)
SumSeq(s) == IF s = <<>> THEN 0 ELSE s[1] + SumSeq(Tail(s))

RECURSIVE NodeCount(_)
\* Number of nodes of a tree (used to bound the model only).
NodeCount(n) ==
    IF IsArray(n) THEN 1 + SumSeq([i \in 1..Len(n.v) |-> NodeCount(n.v[i])])
    ELSE IF IsDict(n)
         THEN LET RECURSIVE Over(_)
                  Over(K) == IF K = {} THEN 0
                             ELSE LET k == CHOOSE k \in K : TRUE
                                  IN NodeCount(n.v[k]) + Over(K \ {k})
              IN 1 + Over(DOMAIN n.v)
    ELSE 1

\* The double alternative.  A finite double is (-1)^neg * m * 10^e, where m
\* is the natural number with the decimal digits ds; ds neither starts nor
\* ends with "0", and zero is ds = <<>>, e = 0.  The decimal numbers of up to
\* 15 significant digits are distinct doubles, and std::stod and
\* ostream << double convert them exactly.
DoubleNode(neg, ds, e) == [t |-> "double", v |-> [neg |-> neg, ds |-> ds, e |-> e]]

\* Node::operator== : std::variant equality, the same alternative holding
\* an equal value (-0.0 == 0.0 for double).
RECURSIVE NodeEq(_, _)
NodeEq(a, b) ==
    IF a.t # b.t THEN FALSE
    ELSE IF a.t = "array"
         THEN /\ Len(a.v) = Len(b.v)
              /\ \A i \in 1..Len(a.v) : NodeEq(a.v[i], b.v[i])
    ELSE IF a.t = "dict"
         THEN /\ DOMAIN a.v = DOMAIN b.v
              /\ \A k \in DOMAIN a.v : NodeEq(a.v[k], b.v[k])
    ELSE IF a.t = "double"
         THEN /\ a.v.ds = b.v.ds
              /\ a.v.e = b.v.e
              /\ (a.v.ds # <<>> => a.v.neg = b.v.neg)
    ELSE a.v = b.v

---------------------------------------------------------------------------
(* Characters *)

Digits == <<"0", "1", "2", "3", "4", "5", "6", "7", "8", "9">>
IsDigit(c) == \E i \in 1..10 : Digits[i] = c
DigitValue(c) == (CHOOSE i \in 1..10 : Digits[i] = c) - 1

Lower == <<"a", "b", "c", "d", "e", "f", "g", "h", "i", "j", "k", "l", "m",
           "n", "o", "p", "q", "r", "s", "t", "u", "v", "w", "x", "y", "z">>
Upper == <<"A", "B", "C", "D", "E", "F", "G", "H", "I", "J", "K", "L", "M",
           "N", "O", "P", "Q", "R", "S", "T", "U", "V", "W", "X", "Y", "Z">>
\* std::isalpha and the whitespace operator>> skips, in the "C" locale.
IsAlpha(c) == \E i \in 1..26 : Lower[i] = c \/ Upper[i] = c
IsSpace(c) == c \in {" ", "\t", "\n", "\r"}

\* The code of a character: the order std::map<std::string, Node> keeps its
\* keys in.
Ord(c) ==
    IF IsDigit(c) THEN 48 + DigitValue(c)
    ELSE IF \E i \in 1..26 : Upper[i] = c THEN 64 + (CHOOSE i \in 1..26 : Upper[i] = c)
    ELSE IF \E i \in 1..26 : Lower[i] = c THEN 96 + (CHOOSE i \in 1..26 : Lower[i] = c)
    ELSE CASE c = "\t" -> 9 [] c = "\n" -> 10 [] c = "\r" -> 13 [] c = " " -> 32
           [] c = "\"" -> 34 [] c = "+" -> 43 [] c = "," -> 44 [] c = "-" -> 45
           [] c = "." -> 46 [] c = "/" -> 47 [] c = ":" -> 58 [] c = "[" -> 91
           [] c = "\\" -> 92 [] c = "]" -> 93 [] c = "{" -> 123 [] c = "}" -> 125

RECURSIVE StringLess(_, _)
\* std::less<std::string>
StringLess(x, y) ==
    IF y = <<>> THEN FALSE
    ELSE IF x = <<>> THEN TRUE
    ELSE IF x[1] = y[1] THEN StringLess(Tail(x), Tail(y))
    ELSE Ord(x[1]) < Ord(y[1])

RECURSIVE Pow10(_)
Pow10(n) == IF n = 0 THEN 1 ELSE 10 * Pow10(n - 1)

RECURSIVE Repeat(_, _)
Repeat(c, n) == IF n <= 0 THEN <<>> ELSE <<c>> \o Repeat(c, n - 1)

---------------------------------------------------------------------------
(* json_builder.cpp: the operations, as functions of the builder object    *)
(* b = [root_, nodes_stack_] to an outcome [ok, root_, nodes_stack_]; ok   *)
(* is FALSE when the call throws std::logic_error, and the builder is then *)
(* as it was.                                                              *)

Builder == [root_ |-> Null, nodes_stack_ |-> << <<>> >>]

Returns(r, s) == [ok |-> TRUE, root_ |-> r, nodes_stack_ |-> s]
Throws(b) == [ok |-> FALSE, root_ |-> b.root_, nodes_stack_ |-> b.nodes_stack_]

\* GetCurValue throws when the stack is empty ...
GetCurValueThrows(b) == b.nodes_stack_ = <<>>
\* ... and otherwise returns nodes_stack_.back()->GetValue().
GetCurValue(b) == NodeAt(b.root_, Last(b.nodes_stack_))

\* AddObject that overwrites a non-empty current value instead of throwing.
AddObjectOverwrites(b, value, is_single_value) ==
    IF GetCurValueThrows(b) THEN Throws(b)
    ELSE LET top == Last(b.nodes_stack_)
             current_value == GetCurValue(b)
         IN IF IsArray(current_value)
            THEN LET arr == Append(current_value.v, value)
                 IN Returns(Replace(b.root_, top, ArrayNode(arr)),
                            IF ~is_single_value
                            THEN Append(b.nodes_stack_, Append(top, IdxStep(Len(arr))))
                            ELSE b.nodes_stack_)
            ELSE Returns(Replace(b.root_, top, value),
                         IF is_single_value THEN Front(b.nodes_stack_)
                         ELSE b.nodes_stack_)

\* AddObject that inserts at the front of the current array.
AddObjectInFront(b, value, is_single_value) ==
    IF GetCurValueThrows(b) THEN Throws(b)
    ELSE LET top == Last(b.nodes_stack_)
             current_value == GetCurValue(b)
         IN IF IsArray(current_value)
            THEN LET arr == <<value>> \o current_value.v
                 IN Returns(Replace(b.root_, top, ArrayNode(arr)),
                            IF ~is_single_value
                            THEN Append(b.nodes_stack_, Append(top, IdxStep(1)))
                            ELSE b.nodes_stack_)
            ELSE IF ~IsNull(current_value) THEN Throws(b)
            ELSE Returns(Replace(b.root_, top, value),
                         IF is_single_value THEN Front(b.nodes_stack_)
                         ELSE b.nodes_stack_)

AddObject(b, value, is_single_value) ==
    IF GetCurValueThrows(b) THEN Throws(b)
    ELSE LET top == Last(b.nodes_stack_)
             current_value == GetCurValue(b)
         IN IF IsArray(current_value)
            THEN LET arr == Append(current_value.v, value)
                 IN Returns(Replace(b.root_, top, ArrayNode(arr)),
                            IF ~is_single_value
                            THEN Append(b.nodes_stack_, Append(top, IdxStep(Len(arr))))
                            ELSE b.nodes_stack_)
            ELSE IF ~IsNull(current_value) THEN Throws(b)
            ELSE Returns(Replace(b.root_, top, value),
                         IF is_single_value THEN Front(b.nodes_stack_)
                         ELSE b.nodes_stack_)

\* StartDict that adds the object like a single value: no push in an array,
\* a pop elsewhere.
StartDictAsValue(b) == AddObject(b, DictNode(<<>>), TRUE)

StartDict(b) == AddObject(b, DictNode(<<>>), FALSE)

StartArray(b) == AddObject(b, ArrayNode(<<>>), FALSE)

\* Value that takes a finished document for a fresh one.
ValueAfterFinish(b, value) ==
    IF b.nodes_stack_ = <<>> THEN Returns(value, b.nodes_stack_)
    ELSE AddObject(b, value, TRUE)

Value(b, value) == AddObject(b, value, TRUE)

\* EndDict without its check of the current value's alternative.
EndDictUnchecked(b) ==
    IF GetCurValueThrows(b) THEN Throws(b)
    ELSE Returns(b.root_, Front(b.nodes_stack_))

EndDict(b) ==
    IF GetCurValueThrows(b) THEN Throws(b)
    ELSE IF ~IsDict(GetCurValue(b)) THEN Throws(b)
    ELSE Returns(b.root_, Front(b.nodes_stack_))

\* EndArray that pops the stack before its check of the current value.
EndArrayPopsFirst(b) ==
    IF GetCurValueThrows(b) THEN Throws(b)
    ELSE IF ~IsArray(GetCurValue(b))
         THEN [ok |-> FALSE, root_ |-> b.root_, nodes_stack_ |-> Front(b.nodes_stack_)]
    ELSE Returns(b.root_, Front(b.nodes_stack_))

EndArray(b) ==
    IF GetCurValueThrows(b) THEN Throws(b)
    ELSE IF ~IsArray(GetCurValue(b)) THEN Throws(b)
    ELSE Returns(b.root_, Front(b.nodes_stack_))

\* std::map::operator[] : the slot of key, default-constructed (Null) if absent.
Subscript(d, key) ==
    [k \in DOMAIN d \cup {key} |-> IF k \in DOMAIN d THEN d[k] ELSE Null]

Key(b, key) ==
    IF GetCurValueThrows(b) THEN Throws(b)
    ELSE LET top == Last(b.nodes_stack_)
             current_value == GetCurValue(b)
         IN IF ~IsDict(current_value) THEN Throws(b)
            ELSE Returns(Replace(b.root_, top, DictNode(Subscript(current_value.v, key))),
                         Append(b.nodes_stack_, Append(top, KeyStep(key))))

\* Build without its check of the stack.
BuildUnchecked(b) == Returns(b.root_, b.nodes_stack_)

\* Build throws while the stack is non-empty, and otherwise returns
\* std::move(root_).
Build(b) ==
    IF b.nodes_stack_ # <<>> THEN Throws(b)
    ELSE Returns(b.root_, b.nodes_stack_)

\* What std::move leaves in root_ : a scalar is copied; a moved-from vector
\* is empty; a moved-from string or map is valid but unspecified.
MovedFrom(n) ==
    IF IsArray(n) THEN {ArrayNode(<<>>)}
    ELSE IF IsDict(n) THEN {DictNode(<<>>), n}
    ELSE IF n.t = "string" THEN {StrNode(<<>>), n}
    ELSE {n}

---------------------------------------------------------------------------
(* json.cpp: the printer *)

indent_step == 4

RECURSIVE NatToText(_)
NatToText(n) ==
    IF n < 10 THEN <<Digits[n + 1]>>
    ELSE NatToText(n \div 10) \o <<Digits[(n % 10) + 1]>>

IntMax == 2147483647
IntMinText == <<"2", "1", "4", "7", "4", "8", "3", "6", "4", "8">>

\* ostream << int
PrintInt(n) ==
    IF n >= 0 THEN NatToText(n)
    ELSE IF n = -IntMax - 1 THEN <<"-">> \o IntMinText
    ELSE <<"-">> \o NatToText(-n)

RECURSIVE StripZeros(_)
StripZeros(ds) ==
    IF Len(ds) > 1 /\ Last(ds) = "0" THEN StripZeros(Front(ds)) ELSE ds

RECURSIVE TextToNat(_)
TextToNat(ds) ==
    IF ds = <<>> THEN 0 ELSE 10 * TextToNat(Front(ds)) + DigitValue(Last(ds))

\* The at most 6 significant digits ostream << double writes for the digits
\* ds * 10^e (the default precision 6, rounded to nearest, ties to even),
\* and the decimal exponent x of the first of them.  A seventh digit "5" with
\* nothing after it is an exact tie only for a value the double holds
\* exactly (an integer, a half); the values used below stay clear of ties.
Significant(ds, e) ==
    LET n == Len(ds)
        head == TextToNat(SubSeq(ds, 1, 6))
        up == IF n = 7 /\ ds[7] = "5" THEN head % 2 = 1 ELSE DigitValue(ds[7]) >= 5
        m6 == IF up THEN head + 1 ELSE head
    IN IF n <= 6 THEN [ds |-> ds, x |-> n - 1 + e]
       ELSE IF m6 = Pow10(6) THEN [ds |-> <<"1">>, x |-> n + e]
       ELSE [ds |-> StripZeros(NatToText(m6)), x |-> n - 1 + e]

\* ostream << double : the %g conversion with precision 6.
PrintDouble(d) ==
    LET sign == IF d.neg THEN <<"-">> ELSE <<>>
        sig == Significant(d.ds, d.e)
        ds == sig.ds
        x == sig.x
        n == Len(ds)
    IN IF d.ds = <<>> THEN sign \o <<"0">>
       ELSE IF x < -4 \/ x >= 6
            THEN sign \o <<ds[1]>>
                 \o (IF n > 1 THEN <<".">> \o SubSeq(ds, 2, n) ELSE <<>>)
                 \o <<"e", IF x < 0 THEN "-" ELSE "+">>
                 \o (LET a == IF x < 0 THEN -x ELSE x
                     IN IF a < 10 THEN <<"0">> \o NatToText(a) ELSE NatToText(a))
       ELSE IF x >= 0
            THEN sign \o SubSeq(ds, 1, IF n < x + 1 THEN n ELSE x + 1)
                 \o Repeat("0", x + 1 - n)
                 \o (IF n > x + 1 THEN <<".">> \o SubSeq(ds, x + 2, n) ELSE <<>>)
       ELSE sign \o <<"0", ".">> \o Repeat("0", -x - 1) \o ds

RECURSIVE PrintStringChars(_)
PrintStringChars(value) ==
    IF value = <<>> THEN <<>>
    ELSE LET c == value[1]
         IN (CASE c = "\r" -> <<"\\", "r">>
               [] c = "\n" -> <<"\\", "n">>
               [] c = "\t" -> <<"\\", "t">>
               [] c = "\"" -> <<"\\", "\"">>
               [] c = "\\" -> <<"\\", "\\">>
               [] OTHER -> <<c>>)
            \o PrintStringChars(Tail(value))

\* A PrintString that writes every character as it stands.
PrintStringRaw(value) == <<"\"">> \o value \o <<"\"">>

PrintString(value) == <<"\"">> \o PrintStringChars(value) \o <<"\"">>

\* PrintContext::PrintIndent
\* A PrintIndent that writes nothing.
PrintIndentNone(indent) == <<>>

PrintIndent(indent) == Repeat(" ", indent)

RECURSIVE SortedKeys(_)
\* The keys of a Dict in the order std::map iterates them.
SortedKeys(K) ==
    IF K = {} THEN <<>>
    ELSE LET k == CHOOSE k \in K : \A j \in K \ {k} : StringLess(k, j)
         IN <<k>> \o SortedKeys(K \ {k})

RECURSIVE PrintNode(_, _)
\* PrintNode / PrintValue<T> with ctx.indent = indent.
PrintNode(node, indent) ==
    LET inner == indent_step + indent
        RECURSIVE Elements(_)
        Elements(i) ==
            IF i > Len(node.v) THEN <<>>
            ELSE (IF i = 1 THEN <<>> ELSE <<",", "\n">>)
                 \o PrintIndent(inner) \o PrintNode(node.v[i], inner)
                 \o Elements(i + 1)
        keys == SortedKeys(DOMAIN node.v)
        RECURSIVE Entries(_)
        Entries(i) ==
            IF i > Len(keys) THEN <<>>
            ELSE (IF i = 1 THEN <<>> ELSE <<",", "\n">>)
                 \o PrintIndent(inner) \o PrintString(keys[i]) \o <<":", " ">>
                 \o PrintNode(node.v[keys[i]], inner)
                 \o Entries(i + 1)
    IN CASE node.t = "null" -> <<"n", "u", "l", "l">>
         [] node.t = "bool" -> IF node.v THEN <<"t", "r", "u", "e">>
                               ELSE <<"f", "a", "l", "s", "e">>
         [] node.t = "int" -> PrintInt(node.v)
         [] node.t = "double" -> PrintDouble(node.v)
         [] node.t = "string" -> PrintString(node.v)
         [] node.t = "array" ->
                <<"[", "\n">> \o Elements(1) \o <<"\n">> \o PrintIndent(indent) \o <<"]">>
         [] node.t = "dict" ->
                <<"{", "\n">> \o Entries(1) \o <<"\n">> \o PrintIndent(indent) \o <<"}">>

\* json::Print(doc, output)
PrintDocument(d) == PrintNode(d, 0)

---------------------------------------------------------------------------
(* json.cpp: the parser.  The stream is the text s and the position p of   *)
(* the next character to read; a loader returns [ok, node, pos], with ok   *)
(* FALSE when it throws ParsingError.                                      *)

ParsingError == [ok |-> FALSE, node |-> Null, pos |-> 0]
Parsed(node, pos) == [ok |-> TRUE, node |-> node, pos |-> pos]

\* input.peek()
Peek(s, p) == IF p > Len(s) THEN "EOF" ELSE s[p]

RECURSIVE SkipSpace(_, _)
\* The whitespace operator>> skips before it reads a char.
SkipSpace(s, p) == IF p <= Len(s) /\ IsSpace(s[p]) THEN SkipSpace(s, p + 1) ELSE p

RECURSIVE AlphaEnd(_, _)
AlphaEnd(s, p) == IF IsAlpha(Peek(s, p)) THEN AlphaEnd(s, p + 1) ELSE p

\* A LoadLiteral that reads the next four characters.
LoadLiteralFour(s, p) == SubSeq(s, p, IF p + 3 > Len(s) THEN Len(s) ELSE p + 3)

\* LoadLiteral: the run of letters at p; the stream is left behind it.
LoadLiteral(s, p) == SubSeq(s, p, AlphaEnd(s, p) - 1)

LoadBool(s, p) ==
    LET literal == LoadLiteral(s, p)
    IN IF literal = <<"t", "r", "u", "e">> THEN Parsed(BoolNode(TRUE), AlphaEnd(s, p))
       ELSE IF literal = <<"f", "a", "l", "s", "e">>
            THEN Parsed(BoolNode(FALSE), AlphaEnd(s, p))
       ELSE ParsingError

LoadNull(s, p) ==
    IF LoadLiteral(s, p) = <<"n", "u", "l", "l">> THEN Parsed(Null, AlphaEnd(s, p))
    ELSE ParsingError

\* A read_digits that reads one digit only.
DigitsEndOne(s, p) == IF IsDigit(Peek(s, p)) THEN p + 1 ELSE p

RECURSIVE DigitsEnd(_, _)
\* read_digits: the position behind the digits at p.
DigitsEnd(s, p) == IF IsDigit(Peek(s, p)) THEN DigitsEnd(s, p + 1) ELSE p

RECURSIVE StripLeadingZeros(_)
StripLeadingZeros(ds) ==
    IF ds # <<>> /\ ds[1] = "0" THEN StripLeadingZeros(Tail(ds)) ELSE ds

RECURSIVE Normal(_, _, _)
\* The double of decimal value (-1)^neg * ds * 10^e, for any digits ds.
Normal(neg, ds, e) ==
    IF ds = <<>> THEN DoubleNode(neg, <<>>, 0)
    ELSE IF ds[1] = "0" THEN Normal(neg, Tail(ds), e)
    ELSE IF Last(ds) = "0" THEN Normal(neg, Front(ds), e + 1)
    ELSE DoubleNode(neg, ds, e)

\* A std::stoi that accepts no digits.
NeverInRange(neg, ds) == FALSE

\* std::stoi accepts the digits ds, with sign neg, iff the number is an int.
InIntRange(neg, ds) ==
    LET limit == IF neg THEN IntMinText ELSE NatToText(IntMax)
    IN Len(ds) < Len(limit) \/ (Len(ds) = Len(limit) /\ ~StringLess(limit, ds))

Stoi(neg, ds) ==
    IF ~neg THEN TextToNat(ds)
    ELSE IF ds = IntMinText THEN -IntMax - 1
    ELSE -TextToNat(ds)

\* std::stod throws std::out_of_range when strtod reports ERANGE: beyond
\* the range of normal doubles, decimal exponents of about +-308.  es are the
\* digits of the literal's exponent.
StodThrows(d, es) ==
    /\ d.v.ds # <<>>
    /\ \/ Len(StripLeadingZeros(es)) > 4
       \/ LET x == Len(d.v.ds) - 1 + d.v.e IN x > 308 \/ x < -307

LoadNumber(s, p) ==
    LET p1 == IF Peek(s, p) = "-" THEN p + 1 ELSE p
        p2 == IF Peek(s, p1) = "0" THEN p1 + 1 ELSE DigitsEnd(s, p1)
        hasFraction == Peek(s, p2) = "."
        p3 == IF hasFraction THEN DigitsEnd(s, p2 + 1) ELSE p2
        hasExponent == Peek(s, p3) \in {"e", "E"}
        p4 == IF hasExponent /\ Peek(s, p3 + 1) \in {"+", "-"} THEN p3 + 2 ELSE p3 + 1
        p5 == IF hasExponent THEN DigitsEnd(s, p4) ELSE p3
        is_int == ~hasFraction /\ ~hasExponent
        neg == p1 > p
        integer == SubSeq(s, p1, p2 - 1)
        fraction == IF hasFraction THEN SubSeq(s, p2 + 1, p3 - 1) ELSE <<>>
        es == IF hasExponent THEN SubSeq(s, p4, p5 - 1) ELSE <<>>
        exponent == IF Len(StripLeadingZeros(es)) > 4 THEN 0
                    ELSE IF Peek(s, p3 + 1) = "-" THEN -TextToNat(es)
                    ELSE TextToNat(es)
        stod == Normal(neg, integer \o fraction, exponent - Len(fraction))
    IN IF p2 = p1 THEN ParsingError                          \* a digit is expected
       ELSE IF hasFraction /\ p3 = p2 + 1 THEN ParsingError
       ELSE IF hasExponent /\ p5 = p4 THEN ParsingError
       ELSE IF is_int /\ InIntRange(neg, integer)
            THEN Parsed(IntNode(Stoi(neg, integer)), p5)
       ELSE IF StodThrows(stod, es) THEN ParsingError
       ELSE Parsed(stod, p5)

RECURSIVE LoadStringFrom(_, _, _)
\* The loop of LoadString, with the characters read so far.
LoadStringFrom(s, p, str) ==
    IF p > Len(s) THEN ParsingError
    ELSE LET ch == s[p]
         IN IF ch = "\"" THEN Parsed(StrNode(str), p + 1)
            ELSE IF ch = "\\"
                 THEN IF p + 1 > Len(s) THEN ParsingError
                      ELSE LET escaped_char == s[p + 1]
                           IN CASE escaped_char = "n" ->
                                        LoadStringFrom(s, p + 2, Append(str, "\n"))
                                [] escaped_char = "t" ->
                                        LoadStringFrom(s, p + 2, Append(str, "\t"))
                                [] escaped_char = "r" ->
                                        LoadStringFrom(s, p + 2, Append(str, "\r"))
                                [] escaped_char = "\"" ->
                                        LoadStringFrom(s, p + 2, Append(str, "\""))
                                [] escaped_char = "\\" ->
                                        LoadStringFrom(s, p + 2, Append(str, "\\"))
                                [] OTHER -> ParsingError
            ELSE IF ch = "\n" \/ ch = "\r" THEN ParsingError
            ELSE LoadStringFrom(s, p + 1, Append(str, ch))

\* A LoadString that takes everything up to the next quote as it stands.
LoadStringRaw(s, p) ==
    LET quotes == {q \in p..Len(s) : s[q] = "\""}
        first == CHOOSE q \in quotes : \A r \in quotes : q <= r
    IN IF quotes = {} THEN ParsingError
       ELSE Parsed(StrNode(SubSeq(s, p, first - 1)), first + 1)

LoadString(s, p) == LoadStringFrom(s, p, <<>>)

\* A map that finds no key.
FindNothing(dict, key) == FALSE

\* dict.find(key) != dict.end()
Find(dict, key) == key \in DOMAIN dict

\* A loop of LoadArray that puts every character back.
PutBackAll(s, q) == q

\* if (c != ',') input.putback(c): the character at q is read when it is a
\* comma.
SkipComma(s, q) == IF s[q] = "," THEN q + 1 ELSE q

RECURSIVE LoadNode(_, _), LoadArrayFrom(_, _, _), LoadDictFrom(_, _, _)

\* A LoadNode that returns null when the input ends before a value starts.
LoadNodeAtEnd(s, p) ==
    LET q == SkipSpace(s, p)
    IN IF q > Len(s) THEN Parsed(Null, q)
       ELSE CASE s[q] = "[" -> LoadArrayFrom(s, q + 1, <<>>)
              [] s[q] = "{" -> LoadDictFrom(s, q + 1, <<>>)
              [] s[q] = "\"" -> LoadString(s, q + 1)
              [] s[q] \in {"t", "f"} -> LoadBool(s, q)
              [] s[q] = "n" -> LoadNull(s, q)
              [] OTHER -> LoadNumber(s, q)

\* The loop of LoadArray, with the elements read so far (result).
LoadArrayFrom(s, p, nodes) ==
    LET q == SkipSpace(s, p)
    IN IF q > Len(s) THEN ParsingError
       ELSE IF s[q] = "]" THEN Parsed(ArrayNode(nodes), q + 1)
       ELSE LET element == LoadNode(s, SkipComma(s, q))
            IN IF ~element.ok THEN ParsingError
               ELSE LoadArrayFrom(s, element.pos, Append(nodes, element.node))

\* The loop of LoadDict, with the entries read so far.
LoadDictFrom(s, p, dict) ==
    LET q == SkipSpace(s, p)
    IN IF q > Len(s) THEN ParsingError
       ELSE IF s[q] = "}" THEN Parsed(DictNode(dict), q + 1)
       ELSE IF s[q] = "\""
            THEN LET key == LoadString(s, q + 1)
                     colon == SkipSpace(s, key.pos)
                     value == LoadNode(s, colon + 1)
                 IN IF ~key.ok THEN ParsingError
                    ELSE IF colon > Len(s) \/ s[colon] # ":" THEN ParsingError
                    ELSE IF Find(dict, key.node.v) THEN ParsingError
                    ELSE IF ~value.ok THEN ParsingError
                    ELSE LoadDictFrom(s, value.pos,
                            [k \in DOMAIN dict \cup {key.node.v} |->
                                IF k = key.node.v THEN value.node ELSE dict[k]])
       ELSE IF s[q] # "," THEN ParsingError
       ELSE LoadDictFrom(s, q + 1, dict)

LoadNode(s, p) ==
    LET q == SkipSpace(s, p)
    IN IF q > Len(s) THEN ParsingError
       ELSE CASE s[q] = "[" -> LoadArrayFrom(s, q + 1, <<>>)
              [] s[q] = "{" -> LoadDictFrom(s, q + 1, <<>>)
              [] s[q] = "\"" -> LoadString(s, q + 1)
              [] s[q] \in {"t", "f"} -> LoadBool(s, q)
              [] s[q] = "n" -> LoadNull(s, q)
              [] OTHER -> LoadNumber(s, q)

LoadArray(s, p) == LoadArrayFrom(s, p, <<>>)

LoadDict(s, p) == LoadDictFrom(s, p, <<>>)

\* json::Load
\* A Load that reads on over the white space after the value.
LoadAndSkip(s) ==
    LET r == LoadNode(s, 1)
    IN IF r.ok THEN Parsed(r.node, SkipSpace(s, r.pos)) ELSE r

Load(s) == LoadNode(s, 1)

---------------------------------------------------------------------------
(* The builder as a state machine: any call may be made in any state.      *)

Keys == {<<"a">>, <<"b">>}
ValueArgs == {Null, IntNode(1), StrNode(<<"s">>), ArrayNode(<<>>)}

this == [root_ |-> root_, nodes_stack_ |-> nodes_stack_]

NoCall == [op |-> "none", ok |-> TRUE]
NoLoad == [ok |-> FALSE, node |-> Null, pos |-> 0]

\* The model follows a call that returns only while the tree stays small.
Fits(r) == Len(r.nodes_stack_) <= MaxDepth /\ NodeCount(r.root_) <= MaxNodes

Unused == UNCHANGED <<doc, calls, frames, pc, text, loaded, finished>>

Init ==
    /\ root_ = Builder.root_
    /\ nodes_stack_ = Builder.nodes_stack_
    /\ lastCall = NoCall
    /\ result = Null
    /\ nbuilt = 0
    /\ doc = Null
    /\ calls = <<>>
    /\ frames = <<>>
    /\ pc = "idle"
    /\ text = <<>>
    /\ loaded = NoLoad
    /\ finished = {}

\* A mutating call with outcome r.
Mutate(op, r) ==
    /\ r.ok => Fits(r)
    /\ root_' = r.root_
    /\ nodes_stack_' = r.nodes_stack_
    /\ lastCall' = [op |-> op, ok |-> r.ok]
    /\ UNCHANGED <<result, nbuilt>>
    /\ Unused

CallStartDict == Mutate("StartDict", StartDict(this))

CallEndDict == Mutate("EndDict", EndDict(this))

CallStartArray == Mutate("StartArray", StartArray(this))

CallEndArray == Mutate("EndArray", EndArray(this))

CallKey == \E key \in Keys : Mutate("Key", Key(this, key))

CallValue == \E value \in ValueArgs : Mutate("Value", Value(this, value))

CallBuild ==
    LET r == Build(this)
    IN /\ nbuilt < MaxBuilds
       /\ lastCall' = [op |-> "Build", ok |-> r.ok]
       /\ nodes_stack_' = r.nodes_stack_
       /\ IF r.ok
          THEN /\ result' = r.root_
               /\ nbuilt' = nbuilt + 1
               /\ root_' \in MovedFrom(root_)
          ELSE UNCHANGED <<result, nbuilt, root_>>
       /\ Unused

Next ==
    \/ CallStartDict
    \/ CallEndDict
    \/ CallStartArray
    \/ CallEndArray
    \/ CallKey
    \/ CallValue
    \/ CallBuild

Spec == Init /\ [][Next]_vars

---------------------------------------------------------------------------
(* The five positions of the builder protocol, read off the builder object *)
(* b: the protocol state is nothing but the stack and the node on its top. *)

Closed(b) == b.nodes_stack_ = <<>>
AtRoot(b) == b.nodes_stack_ = << <<>> >> /\ IsNull(b.root_)
InArray(b) == ~Closed(b) /\ IsArray(GetCurValue(b))
AwaitingKey(b) == ~Closed(b) /\ IsDict(GetCurValue(b))
AwaitingValue(b) == Len(b.nodes_stack_) > 1 /\ IsNull(GetCurValue(b))

Mutators == {"StartDict", "EndDict", "StartArray", "EndArray", "Key", "Value"}

\* C2: Build throws in every reachable state whose stack is non-empty (the
\* fresh builder, an open array or object, a key awaiting its value) and
\* returns only when the stack is empty; a Build call that was made returned
\* exactly when the stack was empty.
BuildFailsUnlessFinished ==
    /\ Build(this).ok <=> nodes_stack_ = <<>>
    /\ (nodes_stack_ = Builder.nodes_stack_ /\ root_ = Builder.root_) => ~Build(this).ok
    /\ (InArray(this) \/ AwaitingKey(this) \/ AwaitingValue(this)) => ~Build(this).ok
    /\ lastCall.op = "Build" => (lastCall.ok <=> nodes_stack_ = <<>>)

\* A Build call has thrown while an array, opened inside an object, is open.
BuildFailedOnOpenArray ==
    /\ lastCall = [op |-> "Build", ok |-> FALSE]
    /\ InArray(this)
    /\ Len(nodes_stack_) > 1

\* C3: Key(name) throws if name is already a key of the object that is open
\* on top of the stack.
KeyRejectsDuplicate ==
    \A key \in Keys :
        ( /\ AwaitingKey(this)
          /\ key \in DOMAIN GetCurValue(this).v
          /\ ~IsNull(GetCurValue(this).v[key]) ) => ~Key(this, key).ok

\* C4: Key returns exactly in InObject-AwaitingKey (it throws at Root, on
\* an array, while a key awaits its value, and when Closed), and when it
\* returns the builder is in InObject-AwaitingValue with the key's slot on top.
KeyOnlyWhenAwaitingKey ==
    \A key \in Keys :
        LET r == Key(this, key)
        IN /\ r.ok <=> AwaitingKey(this)
           /\ (AtRoot(this) \/ InArray(this) \/ AwaitingValue(this) \/ Closed(this)) => ~r.ok
           /\ r.ok => /\ AwaitingValue(r)
                      /\ r.nodes_stack_ =
                            Append(nodes_stack_, Append(Last(nodes_stack_), KeyStep(key)))

\* C5: once the stack is empty it stays empty, and every mutating call made
\* from then on throws and leaves the document as it is.
ClosedIsAbsorbing ==
    [][nodes_stack_ = <<>> =>
        /\ nodes_stack_' = <<>>
        /\ lastCall'.op \in Mutators => (~lastCall'.ok /\ root_' = root_)]_vars

\* A Value call has thrown after Build handed out the document.
ValueFailedAfterBuild ==
    /\ nbuilt = 1
    /\ nodes_stack_ = <<>>
    /\ lastCall = [op |-> "Value", ok |-> FALSE]

\* C6: Build hands out the finished Value at most once.
BuildReturnsOnce == nbuilt <= 1

\* The builder object b with the node on top of its stack put back to x:
\* what b was before a call, if the call changed nothing but that node.
Undone(r, top, x) == Replace(r.root_, top, x)

\* C7: StartArray and StartDict return exactly from Root, InArray and
\* InObject-AwaitingValue and throw from InObject-AwaitingKey and Closed; the
\* new empty container lies at the current position (the root, the end of
\* the current array, the pending key's slot), is the top of the stack, and
\* nothing else changed.
StartSucceedsExactly ==
    \A kind \in {"array", "dict"} :
        LET r == IF kind = "array" THEN StartArray(this) ELSE StartDict(this)
            empty == IF kind = "array" THEN ArrayNode(<<>>) ELSE DictNode(<<>>)
            top == Last(nodes_stack_)
            cur == GetCurValue(this)
        IN /\ r.ok <=> (AtRoot(this) \/ InArray(this) \/ AwaitingValue(this))
           /\ (AwaitingKey(this) \/ Closed(this)) => ~r.ok
           /\ r.ok =>
                /\ r.nodes_stack_ # <<>>
                /\ GetCurValue(r) = empty
                /\ IF kind = "array" THEN InArray(r) ELSE AwaitingKey(r)
                /\ IF InArray(this)
                   THEN /\ r.nodes_stack_ =
                             Append(nodes_stack_, Append(top, IdxStep(Len(cur.v) + 1)))
                        /\ NodeAt(r.root_, top).v = Append(cur.v, empty)
                        /\ Undone(r, top, cur) = root_
                   ELSE /\ r.nodes_stack_ = nodes_stack_
                        /\ Undone(r, top, Null) = root_

\* StartDict has returned on the slot of a pending key.
DictStartedAtKey ==
    /\ lastCall = [op |-> "StartDict", ok |-> TRUE]
    /\ Len(nodes_stack_) > 1
    /\ Last(Last(nodes_stack_)).idx = 0
    /\ GetCurValue(this) = DictNode(<<>>)

\* C8: Value(v) returns exactly from Root, InArray and InObject-AwaitingValue
\* and throws from InObject-AwaitingKey and Closed.  From Root v is the
\* whole document and the builder is Closed; from InArray v is the new last
\* element and the stack is unchanged; from InObject-AwaitingValue v lies
\* under the pending key and the builder awaits a key of the same object.
ValueSucceedsExactly ==
    \A value \in ValueArgs :
        LET r == Value(this, value)
            top == Last(nodes_stack_)
            cur == GetCurValue(this)
        IN /\ r.ok <=> (AtRoot(this) \/ InArray(this) \/ AwaitingValue(this))
           /\ (AwaitingKey(this) \/ Closed(this)) => ~r.ok
           /\ (r.ok /\ AtRoot(this)) => (r.root_ = value /\ Closed(r))
           /\ (r.ok /\ InArray(this)) =>
                /\ r.nodes_stack_ = nodes_stack_
                /\ InArray(r)
                /\ NodeAt(r.root_, top).v = Append(cur.v, value)
                /\ Undone(r, top, cur) = root_
           /\ (r.ok /\ AwaitingValue(this)) =>
                /\ r.nodes_stack_ = Front(nodes_stack_)
                /\ Last(r.nodes_stack_) = Front(top)
                /\ AwaitingKey(r)
                /\ GetCurValue(r).v[Last(top).key] = value
                /\ Undone(r, top, Null) = root_

\* Value has stored a value under a pending key, next to an older entry.
ValueStoredAtKey ==
    /\ lastCall = [op |-> "Value", ok |-> TRUE]
    /\ AwaitingKey(this)
    /\ Cardinality(DOMAIN GetCurValue(this).v) = 2
    /\ \E key \in DOMAIN GetCurValue(this).v : GetCurValue(this).v[key] = IntNode(1)

\* C9: EndArray returns iff the top of the stack is an array and EndDict
\* iff it is an object awaiting a key; every other call (mismatched, at
\* Root, while a key awaits its value, when Closed) throws; a call that
\* returns pops one stack entry and changes nothing else.
EndMatchesTop ==
    LET ra == EndArray(this)
        rd == EndDict(this)
    IN /\ ra.ok <=> InArray(this)
       /\ rd.ok <=> AwaitingKey(this)
       /\ (AtRoot(this) \/ AwaitingValue(this) \/ Closed(this)) => (~ra.ok /\ ~rd.ok)
       /\ \A r \in {ra, rd} :
            /\ r.ok => (r.root_ = root_ /\ r.nodes_stack_ = Front(nodes_stack_))
            /\ ~r.ok => (r.root_ = root_ /\ r.nodes_stack_ = nodes_stack_)

\* EndDict has closed an object that is an element of an open array.
DictClosedInArray ==
    /\ lastCall = [op |-> "EndDict", ok |-> TRUE]
    /\ InArray(this)
    /\ GetCurValue(this).v # <<>>
    /\ IsDict(Last(GetCurValue(this).v))

---------------------------------------------------------------------------
(* Well-formed runs: a caller (such as PrintStat) spells one JSON document *)
(* with distinct keys in each object and then calls Build.  frames is what *)
(* the calls made so far denote: the containers still open, outermost      *)
(* first, each with the elements or entries given to it so far; doc is the *)
(* document once the outermost value is complete.                          *)

Scalars == {Null, IntNode(1), StrNode(<<"s">>)}

ArrayFrame == [kind |-> "array", arr |-> <<>>, dict |-> <<>>, keyed |-> FALSE, key |-> <<>>]
DictFrame == [kind |-> "dict", arr |-> <<>>, dict |-> <<>>, keyed |-> FALSE, key |-> <<>>]

\* A value may come next: nothing was started, an array is open, or a key
\* was given.
ValueExpected ==
    /\ pc = "spelling"
    /\ frames # <<>> => (Last(frames).kind = "array" \/ Last(frames).keyed)

\* The frame f with the complete value v added to it.
Added(f, v) ==
    IF f.kind = "array" THEN [f EXCEPT !.arr = Append(f.arr, v)]
    ELSE [f EXCEPT !.dict = [k \in DOMAIN f.dict \cup {f.key} |->
                                IF k = f.key THEN v ELSE f.dict[k]],
                   !.keyed = FALSE]

\* The complete value v lands in the innermost of the open frames fs.
Put(fs, v) ==
    IF fs = <<>>
    THEN /\ doc' = v
         /\ frames' = <<>>
         /\ pc' = "spelled"
    ELSE /\ frames' = [fs EXCEPT ![Len(fs)] = Added(fs[Len(fs)], v)]
         /\ UNCHANGED <<doc, pc>>

\* The builder call op with outcome r, made as the next call of the run.
Made(op, r) ==
    /\ Len(calls) < MaxCalls
    /\ calls' = Append(calls, op)
    /\ root_' = r.root_
    /\ nodes_stack_' = r.nodes_stack_
    /\ lastCall' = [op |-> op, ok |-> r.ok]
    /\ UNCHANGED <<result, nbuilt, text, loaded, finished>>

SpellValue ==
    \E value \in Scalars :
        /\ ValueExpected
        /\ Made("Value", Value(this, value))
        /\ Put(frames, value)

SpellStartArray ==
    /\ ValueExpected
    /\ Made("StartArray", StartArray(this))
    /\ frames' = Append(frames, ArrayFrame)
    /\ UNCHANGED <<doc, pc>>

SpellStartDict ==
    /\ ValueExpected
    /\ Made("StartDict", StartDict(this))
    /\ frames' = Append(frames, DictFrame)
    /\ UNCHANGED <<doc, pc>>

SpellKey ==
    \E key \in Keys :
        /\ pc = "spelling"
        /\ frames # <<>>
        /\ Last(frames).kind = "dict"
        /\ ~Last(frames).keyed
        /\ key \notin DOMAIN Last(frames).dict
        /\ Made("Key", Key(this, key))
        /\ frames' = [frames EXCEPT ![Len(frames)] =
                         [@ EXCEPT !.keyed = TRUE, !.key = key]]
        /\ UNCHANGED <<doc, pc>>

SpellEndArray ==
    /\ pc = "spelling"
    /\ frames # <<>>
    /\ Last(frames).kind = "array"
    /\ Made("EndArray", EndArray(this))
    /\ Put(Front(frames), ArrayNode(Last(frames).arr))

SpellEndDict ==
    /\ pc = "spelling"
    /\ frames # <<>>
    /\ Last(frames).kind = "dict"
    /\ ~Last(frames).keyed
    /\ Made("EndDict", EndDict(this))
    /\ Put(Front(frames), DictNode(Last(frames).dict))

SpellBuild ==
    LET r == Build(this)
    IN /\ pc = "spelled"
       /\ pc' = "built"
       /\ calls' = Append(calls, "Build")
       /\ lastCall' = [op |-> "Build", ok |-> r.ok]
       /\ nodes_stack_' = r.nodes_stack_
       /\ IF r.ok
          THEN /\ result' = r.root_
               /\ nbuilt' = nbuilt + 1
               /\ root_' \in MovedFrom(root_)
          ELSE UNCHANGED <<result, nbuilt, root_>>
       /\ UNCHANGED <<doc, frames, text, loaded, finished>>

InitDoc ==
    /\ root_ = Builder.root_
    /\ nodes_stack_ = Builder.nodes_stack_
    /\ lastCall = NoCall
    /\ result = Null
    /\ nbuilt = 0
    /\ doc = Null
    /\ calls = <<>>
    /\ frames = <<>>
    /\ pc = "spelling"
    /\ text = <<>>
    /\ loaded = NoLoad
    /\ finished = {}

NextDoc ==
    \/ SpellValue
    \/ SpellStartArray
    \/ SpellStartDict
    \/ SpellKey
    \/ SpellEndArray
    \/ SpellEndDict
    \/ SpellBuild

SpecDoc == InitDoc /\ [][NextDoc]_vars

\* C10: in a well-formed run every call returns, and Build returns exactly
\* the Value the calls denote: each array with its values in call order,
\* each object mapping each key to the value given directly after it.
WellFormedRunBuildsDoc ==
    /\ lastCall.ok
    /\ pc = "spelled" => nodes_stack_ = <<>>
    /\ pc = "built" => (nbuilt = 1 /\ result = doc)

\* Build has returned an object whose entry is an array of two values in
\* call order.
BuiltNestedDoc ==
    /\ pc = "built"
    /\ lastCall = [op |-> "Build", ok |-> TRUE]
    /\ IsDict(result)
    /\ \E key \in DOMAIN result.v : result.v[key] = ArrayNode(<<Null, IntNode(1)>>)

---------------------------------------------------------------------------
(* Print-and-load runs: a Document is printed to a stream and the stream is
   loaded again; a source text is loaded, printed and loaded again *)

JsonScalars ==
    {Null, BoolNode(TRUE), BoolNode(FALSE), IntNode(0), IntNode(-12),
     DoubleNode(FALSE, <<"1", "5">>, -1), DoubleNode(FALSE, <<"3">>, 0),
     StrNode(<<>>), StrNode(<<"a", "\"">>), StrNode(<<"\\", "\n">>)}

Arrays(S) == {ArrayNode(a) : a \in UNION {[1..n -> S] : n \in 0..MaxLen}}

Dicts(S) == {DictNode(f) : f \in UNION {[K -> S] : K \in SUBSET Keys}}

\* The Documents printed: scalars, arrays and objects of scalars, and those
\* containers nested once more.
JsonValues ==
    LET flat == Arrays(JsonScalars) \cup Dicts(JsonScalars)
    IN JsonScalars \cup flat
         \cup {ArrayNode(<<x>>) : x \in flat}
         \cup {DictNode([k \in {<<"b">>} |-> x]) : x \in flat}

\* The pieces a source text is written from.
Pieces ==
    {<<"[">>, <<"]">>, <<",">>, <<" ">>, <<"-">>, <<"0">>, <<"1">>, <<".">>,
     <<"e">>, <<"t", "r", "u", "e">>, <<"\"", "a", "\"">>}

InitJson ==
    /\ root_ = Builder.root_
    /\ nodes_stack_ = Builder.nodes_stack_
    /\ lastCall = NoCall
    /\ result = Null
    /\ nbuilt = 0
    /\ calls = <<>>
    /\ frames = <<>>
    /\ text = <<>>
    /\ loaded = NoLoad
    /\ finished = {}
    /\ \/ pc = "writing" /\ doc = Null
       \/ pc = "value" /\ doc \in JsonValues

BuilderUnused ==
    UNCHANGED <<root_, nodes_stack_, lastCall, result, nbuilt, calls, frames, finished>>

\* The caller writes one more piece of the source text into the stream.
WriteSource ==
    /\ pc = "writing"
    /\ Len(text) < MaxTextLen
    /\ \E piece \in Pieces : text' = text \o piece
    /\ UNCHANGED <<doc, pc, loaded, finished>>
    /\ BuilderUnused

\* Load(input) on the source text: the Document of what it returns.
LoadSource ==
    /\ pc = "writing"
    /\ loaded' = Load(text)
    /\ IF loaded'.ok THEN doc' = loaded'.node /\ pc' = "parsed"
       ELSE doc' = doc /\ pc' = "rejected"
    /\ UNCHANGED text
    /\ BuilderUnused

\* Print(doc, output) into an empty stream.
PrintDoc ==
    /\ pc \in {"value", "parsed"}
    /\ text' = PrintDocument(doc)
    /\ pc' = IF pc = "value" THEN "printed" ELSE "reprinted"
    /\ UNCHANGED <<doc, loaded, finished>>
    /\ BuilderUnused

\* Load(input) on what Print wrote.
LoadPrinted ==
    /\ pc \in {"printed", "reprinted"}
    /\ loaded' = Load(text)
    /\ pc' = IF pc = "printed" THEN "reloaded" ELSE "reparsed"
    /\ UNCHANGED <<doc, text>>
    /\ BuilderUnused

NextJson ==
    \/ WriteSource
    \/ LoadSource
    \/ PrintDoc
    \/ LoadPrinted

SpecJson == InitJson /\ [][NextJson]_vars

\* C1: round trip.  Loading what Print wrote for a value v returns a value
\* equal to v (parse(print(v)) == v), and for a source text s that loads,
\* loading the print of Load(s) returns a value equal to Load(s).
RoundTrip ==
    pc \in {"reloaded", "reparsed"} => (loaded.ok /\ NodeEq(loaded.node, doc))

---------------------------------------------------------------------------
(* Nesting of the calls: the builder is called freely, as under Spec, and
   frames keeps the kinds of the containers whose Start call has returned and
   that no returning End call has closed yet *)

InitNest ==
    /\ root_ = Builder.root_
    /\ nodes_stack_ = Builder.nodes_stack_
    /\ lastCall = NoCall
    /\ result = Null
    /\ nbuilt = 0
    /\ doc = Null
    /\ calls = <<>>
    /\ frames = <<>>
    /\ pc = "nested"
    /\ text = <<>>
    /\ loaded = NoLoad
    /\ finished = {}

\* A mutating call with outcome r that leaves the open containers fs.
Nest(op, r, fs, balanced) ==
    /\ r.ok => Fits(r)
    /\ root_' = r.root_
    /\ nodes_stack_' = r.nodes_stack_
    /\ lastCall' = [op |-> op, ok |-> r.ok]
    /\ frames' = IF r.ok THEN fs ELSE frames
    /\ pc' = IF r.ok /\ ~balanced THEN "unbalanced" ELSE pc
    /\ UNCHANGED <<result, nbuilt, doc, calls, text, loaded, finished>>

\* A returning End call of the given kind closes the innermost open
\* container when that is one of its kind.
Closes(kind) == frames # <<>> /\ Last(frames) = kind

NestStartDict == Nest("StartDict", StartDict(this), Append(frames, "dict"), TRUE)

NestStartArray == Nest("StartArray", StartArray(this), Append(frames, "array"), TRUE)

NestEndDict ==
    Nest("EndDict", EndDict(this),
         IF Closes("dict") THEN Front(frames) ELSE frames, Closes("dict"))

NestEndArray ==
    Nest("EndArray", EndArray(this),
         IF Closes("array") THEN Front(frames) ELSE frames, Closes("array"))

NestKey == \E key \in Keys : Nest("Key", Key(this, key), frames, TRUE)

NestValue == \E value \in ValueArgs : Nest("Value", Value(this, value), frames, TRUE)

NestBuild ==
    LET r == Build(this)
    IN /\ nbuilt < MaxBuilds
       /\ lastCall' = [op |-> "Build", ok |-> r.ok]
       /\ nodes_stack_' = r.nodes_stack_
       /\ IF r.ok
          THEN /\ result' = r.root_
               /\ nbuilt' = nbuilt + 1
               /\ root_' \in MovedFrom(root_)
          ELSE UNCHANGED <<result, nbuilt, root_>>
       /\ Unused

NextNest ==
    \/ NestStartDict
    \/ NestStartArray
    \/ NestEndDict
    \/ NestEndArray
    \/ NestKey
    \/ NestValue
    \/ NestBuild

SpecNest == InitNest /\ [][NextNest]_vars

\* C11: when Build returns, the Start and End calls that returned before it
\* form a balanced bracket sequence: every End call closed the innermost
\* open container of its own kind, and no container is left open.
BuildOnlyBalanced ==
    lastCall = [op |-> "Build", ok |-> TRUE] => (pc = "nested" /\ frames = <<>>)

---------------------------------------------------------------------------
(* Source texts: Load is applied to texts of every shape the grammar has, to
   their prints, and to the proper prefixes of those it accepts *)

RECURSIVE Cat(_)
\* The texts ts one after the other.
Cat(ts) == IF ts = <<>> THEN <<>> ELSE ts[1] \o Cat(Tail(ts))

\* A string literal whose body is written as lit.
Quoted(lit) == <<"\"">> \o lit \o <<"\"">>

\* Key literals with the keys they denote: the tab is written raw or escaped.
KeyTexts ==
    {[lit |-> Quoted(<<"a">>), key |-> <<"a">>],
     [lit |-> Quoted(<<"\t">>), key |-> <<"\t">>],
     [lit |-> Quoted(<<"\\", "t">>), key |-> <<"\t">>]}

\* Value texts with the values they denote.
PairValues ==
    {[lit |-> <<"1">>, node |-> IntNode(1)],
     [lit |-> <<"{", "\"", "a", "\"", ":", "2", "}">>,
      node |-> DictNode([k \in {<<"a">>} |-> IntNode(2)])]}

\* What an object text has between a key and its value, and around a pair.
Colons == {<<":">>, <<>>}
Commas == {<<>>, <<",">>, <<",", ",">>}

\* "key" colon value
PairText(k, colon, v) == Cat(<<k.lit, colon, v.lit>>)

\* Object texts of one pair and of two pairs.
ObjectText1(c0, k1, n1, v1, c1) ==
    Cat(<<<<"{">>, c0, PairText(k1, n1, v1), c1, <<"}">>>>)

ObjectText2(c0, k1, n1, v1, c1, k2, n2, v2, c2) ==
    Cat(<<<<"{">>, c0, PairText(k1, n1, v1), c1, PairText(k2, n2, v2), c2, <<"}">>>>)

ObjectTexts ==
    {Cat(<<<<"{">>, c0, <<"}">>>>) : c0 \in Commas}
      \cup {ObjectText1(c0, k1, n1, v1, c1) :
              c0 \in Commas, k1 \in KeyTexts, n1 \in Colons, v1 \in PairValues,
              c1 \in Commas}
      \cup {ObjectText2(c0, k1, n1, v1, c1, k2, n2, v2, c2) :
              c0 \in Commas, k1 \in KeyTexts, n1 \in Colons, v1 \in PairValues,
              c1 \in Commas, k2 \in KeyTexts, n2 \in Colons, v2 \in PairValues,
              c2 \in Commas}

\* The parts of a number text: sign, integer part, fraction and exponent,
\* each present or absent, well-formed or not, and what follows the number.
Signs == {<<>>, <<"-">>}
SmallIntParts == {<<"0">>, <<"3">>, <<"1", "0">>}
LeadingZeroParts == {<<"0", "1">>, <<"0", "1", "2">>}
LargeIntParts ==
    {<<"2", "1", "4", "7", "4", "8", "3", "6", "4", "7">>, <<"2", "1", "4", "7", "4", "8", "3", "6", "4", "8">>,
     <<"9", "2", "2", "3", "3", "7", "2", "0", "3", "6", "8", "5", "4", "7", "7", "5", "8", "0", "7">>, <<"9", "2", "2", "3", "3", "7", "2", "0", "3", "6", "8", "5", "4", "7", "7", "5", "8", "0", "8">>}
IntParts == {<<>>} \cup SmallIntParts \cup LeadingZeroParts \cup LargeIntParts
Fractions == {<<>>, <<".">>, <<".", "0">>, <<".", "2", "5">>}
Exponents == {<<>>, <<"e">>, <<"e", "2">>, <<"E", "+", "2">>, <<"e", "-">>, <<"E", "-", "1">>, <<"e", "+">>}
Trailers == {<<>>, <<"x">>}

NumberText(sign, int, fraction, exponent, trailer) ==
    Cat(<<sign, int, fraction, exponent, trailer>>)

NumberTexts ==
    {NumberText(sign, int, fraction, exponent, trailer) :
        sign \in Signs, int \in IntParts, fraction \in Fractions,
        exponent \in Exponents, trailer \in Trailers}

\* The places a value text t may stand in: the whole document, an array
\* element, an object value.
AsDocument(t) == t
AsElement(t) == Cat(<<<<"[">>, t, <<"]">>>>)
AsEntry(t) == Cat(<<<<"{", "\"", "a", "\"", ":">>, t, <<"}">>>>)
Placed(t) == {AsDocument(t), AsElement(t), AsEntry(t)}

PlacedNumberTexts == UNION {Placed(t) : t \in NumberTexts}

\* What follows the opening quote of a string text: every sequence of up to
\* MaxTextLen of the characters the string grammar tells apart.
StringChars == {"\"", "\\", "n", "r", "a", "\n", "\r"}
StringTexts ==
    {<<"\"">> \o w : w \in UNION {[1..n -> StringChars] : n \in 0..MaxTextLen}}

\* Texts of nothing but white space.
BlankTexts == {<<>>, <<" ">>, <<"\n">>, <<" ", "\t", "\r", "\n">>}

\* Two sibling objects with the same key.
SiblingObjectsText == <<"[", "{", "\"", "a", "\"", ":", "1", "}", ",", "{", "\"", "a", "\"", ":", "1", "}", "]">>

\* An array in an object in an array.
ThreeLevelsText ==
    <<"[", "1", ",", " ", "\"", "t", "w", "o", "\"", ",", " ", "{",
      "\"", "t", "h", "r", "e", "e", "\"", ":", " ", "n", "u", "l", "l", ",", " ",
      "\"", "f", "o", "u", "r", "\"", ":", " ", "[", "t", "r", "u", "e", ",", " ", "f", "a", "l", "s", "e", "]", "}", "]">>

\* Documents with containers in containers, literals and white space.
NestedTexts ==
    {SiblingObjectsText,
     <<"[", "[", "]", ",", "[", "1", " ", ",", "2", "]", "]">>,
     <<" ", "[", " ", "\"", "a", "\\", "\"", "]", "\"", " ", ",", " ", "t", "r", "u", "e", " ", "]">>,
     <<"{", "\"", "a", "\"", " ", ":", " ", "[", "n", "u", "l", "l", ",", "f", "a", "l", "s", "e", "]", ",", " ", "\"", "b", "\"", ":", "{", "}", "}">>,
     <<"\n", "[", "{", "\"", "a", "\"", ":", "\"", "}", "\"", "}", "]">>,
     ThreeLevelsText}

\* One value of every kind, the white space before it and what follows it
\* in the stream.
RootValueTexts ==
    {<<"n", "u", "l", "l">>,
     <<"t", "r", "u", "e">>,
     <<"f", "a", "l", "s", "e">>,
     <<"0">>,
     <<"-", "1", "2">>,
     <<"1", ".", "5">>,
     <<"3", "e", "2">>,
     <<"\"", "a", "\\", "\"", "b", "\"">>,
     <<"\"", "\"">>,
     <<"[", "]">>,
     <<"[", "1", ",", " ", "[", "2", "]", "]">>,
     <<"{", "}">>,
     <<"{", "\"", "a", "\"", ":", "[", " ", "]", "}">>}
LeadingSpaces == {<<>>, <<" ">>, <<"\n", "\t", " ">>}
TrailingContents == {<<>>, <<" ">>, <<"\n">>, <<",">>, <<"]">>, <<"}">>, <<" ", "1">>, <<"\"">>}

\* The texts of white space, one value and trailing content, each with the
\* position of the first character after the value.
FramedTexts ==
    {[text |-> Cat(<<space, value, rest>>), end |-> Len(space) + Len(value) + 1] :
        space \in LeadingSpaces, value \in RootValueTexts, rest \in TrailingContents}

\* Runs of letters that start like a literal: the literals, proper prefixes,
\* extensions, concatenations and other words; and what may follow a run.
LetterRuns ==
    {<<"t", "r", "u", "e">>,
     <<"f", "a", "l", "s", "e">>,
     <<"n", "u", "l", "l">>,
     <<"t">>,
     <<"f">>,
     <<"n">>,
     <<"t", "r", "u">>,
     <<"f", "a", "l", "s">>,
     <<"n", "u", "l">>,
     <<"t", "r", "u", "e", "x">>,
     <<"f", "a", "l", "s", "e", "e">>,
     <<"n", "u", "l", "l", "l">>,
     <<"t", "r", "u", "e", "f", "a", "l", "s", "e">>,
     <<"n", "u", "l", "l", "t", "r", "u", "e">>,
     <<"t", "r", "u", "e", "E">>,
     <<"n", "u", "L", "l">>,
     <<"t", "a", "l", "s", "e">>,
     <<"n", "r", "u", "e">>,
     <<"f", "r", "u", "e">>}
RunFollowers == {<<>>, <<" ">>, <<",">>, <<"]">>, <<"1">>, <<"\"">>, <<".">>, <<"-">>}

\* The texts of a run of letters and what follows it, each with its run.
LiteralTexts ==
    {[text |-> run \o rest, run |-> run] : run \in LetterRuns, rest \in RunFollowers}

\* What stands between the brackets of an array text: commas, spaces and
\* values that end with a closing character, with the values they denote.
ArrayItems ==
    {[lit |-> <<",">>, kind |-> "comma", node |-> Null],
     [lit |-> <<" ">>, kind |-> "space", node |-> Null],
     [lit |-> Quoted(<<"a">>), kind |-> "value", node |-> StrNode(<<"a">>)],
     [lit |-> <<"[", "]">>, kind |-> "value", node |-> ArrayNode(<<>>)],
     [lit |-> <<"{", "}">>, kind |-> "value", node |-> DictNode(<<>>)]}

\* The array texts of up to MaxItems items, each with its items.
ArrayTexts ==
    {[text |-> AsElement(Cat([i \in 1..Len(items) |-> items[i].lit])), items |-> items] :
        items \in UNION {[1..n -> ArrayItems] : n \in 0..MaxItems}}
ArrayTextSet == {a.text : a \in ArrayTexts}

\* Arrays of numbers with and without commas.
SpacedNumbersText == <<"[", "1", " ", "2", "]">>
CommaFirstText == <<"[", ",", "1", "]">>
CommaLastText == <<"[", "1", ",", "]">>
CommaTwiceText == <<"[", "1", ",", ",", "2", "]">>
NumberArrayTexts == {SpacedNumbersText, CommaFirstText, CommaLastText, CommaTwiceText}

SourceTexts ==
    ObjectTexts \cup PlacedNumberTexts \cup StringTexts \cup BlankTexts \cup NestedTexts
      \cup {f.text : f \in FramedTexts} \cup {l.text : l \in LiteralTexts}
      \cup ArrayTextSet \cup NumberArrayTexts

\* The strings printed: every sequence of up to MaxTextLen of the characters
\* PrintString tells apart, as a String and as the key of an Object.
PrintedChars == {"\n", "\t", "\r", "\"", "\\", "n", "a"}
PrintedStrings == UNION {[1..n -> PrintedChars] : n \in 0..MaxTextLen}
KeyOf(node) == CHOOSE key \in DOMAIN node.v : TRUE
StringValues ==
    {StrNode(w) : w \in PrintedStrings}
      \cup {DictNode([key \in {w} |-> Null]) : w \in PrintedStrings}

InitText ==
    /\ root_ = Builder.root_
    /\ nodes_stack_ = Builder.nodes_stack_
    /\ lastCall = NoCall
    /\ result = Null
    /\ nbuilt = 0
    /\ calls = <<>>
    /\ frames = <<>>
    /\ loaded = NoLoad
    /\ finished = {}
    /\ \/ pc = "writing" /\ text \in SourceTexts /\ doc = Null
       \/ pc = "value" /\ text = <<>> /\ doc \in StringValues

\* Load(input) on a stream that ends before the end of an accepted document.
LoadPrefix ==
    /\ pc = "parsed"
    /\ \E n \in 0..(loaded.pos - 2) : text' = SubSeq(text, 1, n)
    /\ loaded' = Load(text')
    /\ pc' = "cut"
    /\ UNCHANGED doc
    /\ BuilderUnused

\* Print(doc, output), into an empty stream, of the Document that Load
\* returned for what Print wrote.
PrintLoaded ==
    /\ pc \in {"reloaded", "reparsed"}
    /\ loaded.ok
    /\ text' = PrintDocument(loaded.node)
    /\ pc' = "printed again"
    /\ UNCHANGED <<doc, loaded, finished>>
    /\ BuilderUnused

NextText ==
    \/ WriteSource
    \/ LoadSource
    \/ PrintDoc
    \/ LoadPrinted
    \/ LoadPrefix
    \/ PrintLoaded

SpecText == InitText /\ [][NextText]_vars

\* Load has been applied to the source text.
Sourced == pc \in {"parsed", "rejected"}

\* Object texts with the same key twice in one object, whatever the commas.
DuplicateKeyTexts ==
    UNION {{ObjectText2(c0, k1, <<":">>, v1, c1, k2, <<":">>, v2, c2) :
               c0 \in Commas, v1 \in PairValues, c1 \in Commas,
               k2 \in {k \in KeyTexts : k.key = k1.key}, v2 \in PairValues,
               c2 \in Commas} : k1 \in KeyTexts}

\* C12: an object text with the same key (after unescaping) twice in one
\* object is rejected; the same key in an object and in the object nested in
\* it, and in two sibling objects, is accepted, each object keeping its own
\* entry.
DuplicateKeyIsRejected ==
    /\ (Sourced /\ text \in DuplicateKeyTexts) => ~loaded.ok
    /\ \A k \in KeyTexts, v \in PairValues :
          (Sourced /\ text = ObjectText1(<<>>, k, <<":">>, v, <<>>))
             => (loaded.ok /\ loaded.node = DictNode([x \in {k.key} |-> v.node]))
    /\ (Sourced /\ text = SiblingObjectsText)
          => (loaded.ok /\ loaded.node = ArrayNode(<<DictNode([x \in {<<"a">>} |-> IntNode(1)]),
                                                    DictNode([x \in {<<"a">>} |-> IntNode(1)])>>))

\* The object with the key tab written raw and then escaped has been rejected.
RejectedEscapedDuplicate ==
    /\ pc = "rejected"
    /\ text = <<"{", "\"", "\t", "\"", ":", "1", ",", "\"", "\\", "t", "\"", ":", "1", "}">>

\* The well-formed fractions and exponents, absent ones included.
GoodFractions == {f \in Fractions : f = <<>> \/ Len(f) > 1}
GoodExponents == {e \in Exponents : e = <<>> \/ IsDigit(Last(e))}

\* Number texts whose integer part is a zero followed by further digits, in
\* each of the three places.
LeadingZeroTexts ==
    UNION {Placed(NumberText(sign, int, fraction, exponent, <<>>)) :
             sign \in Signs, int \in LeadingZeroParts, fraction \in GoodFractions,
             exponent \in GoodExponents}

\* C13: a numeric literal with a leading zero followed by further digits is
\* rejected as the whole document, as an array element and as an object value.
LeadingZeroIsRejected == (Sourced /\ text \in LeadingZeroTexts) => ~loaded.ok

\* The integer parts without a leading zero.
PlainIntParts == SmallIntParts \cup LargeIntParts

\* The digits ds with sign neg are a number of the 64-bit signed range.
InInt64Range(neg, ds) ==
    LET limit == IF neg THEN <<"9", "2", "2", "3", "3", "7", "2", "0", "3", "6", "8", "5", "4", "7", "7", "5", "8", "0", "8">>
                 ELSE <<"9", "2", "2", "3", "3", "7", "2", "0", "3", "6", "8", "5", "4", "7", "7", "5", "8", "0", "7">>
    IN Len(ds) < Len(limit) \/ (Len(ds) = Len(limit) /\ ~StringLess(limit, ds))

\* C14: a literal without fraction and exponent parses to an Int exactly when
\* its value is in the 64-bit signed range, and to a Double otherwise.
IntExactlyInInt64Range ==
    \A neg \in BOOLEAN, int \in PlainIntParts :
        (Sourced /\ text = NumberText(IF neg THEN <<"-">> ELSE <<>>, int, <<>>, <<>>, <<>>))
          => /\ loaded.ok
             /\ loaded.node.t = IF InInt64Range(neg, int) THEN "int" ELSE "double"

\* Well-formed number texts with a fraction or an exponent, and the small
\* ones with neither.
FractionalTexts ==
    {NumberText(sign, int, fraction, exponent, trailer) :
        sign \in Signs, int \in PlainIntParts, fraction \in GoodFractions \ {<<>>},
        exponent \in GoodExponents, trailer \in Trailers}
ExponentTexts ==
    {NumberText(sign, int, fraction, exponent, trailer) :
        sign \in Signs, int \in PlainIntParts, fraction \in GoodFractions,
        exponent \in GoodExponents \ {<<>>}, trailer \in Trailers}
SmallIntTexts ==
    {NumberText(sign, int, <<>>, <<>>, trailer) :
        sign \in Signs, int \in SmallIntParts, trailer \in Trailers}

\* C15: a literal with a fraction or an exponent parses to a Double, also when
\* its value is integral (3.0 is the double 3, 3e2 the double 300); a small
\* literal with neither parses to an Int (3, -3, 0); never to both.
NumberCaseFollowsShape ==
    Sourced =>
      /\ text \in FractionalTexts \cup ExponentTexts => (loaded.ok /\ loaded.node.t = "double")
      /\ text \in SmallIntTexts => (loaded.ok /\ loaded.node.t = "int")
      /\ text = <<"3", ".", "0">> => loaded.node = DoubleNode(FALSE, <<"3">>, 0)
      /\ text = <<"3", "e", "2">> => loaded.node = DoubleNode(FALSE, <<"3">>, 2)
      /\ text = <<"3">> => loaded.node = IntNode(3)
      /\ text = <<"-", "3">> => loaded.node = IntNode(-3)
      /\ text = <<"0">> => loaded.node = IntNode(0)

\* 3e2 has been parsed to the double 300.
ParsedIntegralDouble ==
    /\ pc = "parsed"
    /\ text = <<"3", "e", "2">>
    /\ loaded.node = DoubleNode(FALSE, <<"3">>, 2)

\* The grammar -?(0|[1-9][0-9]*)(.[0-9]+)?([eE][+-]?[0-9]+)? on the text s:
\* the end of the run of digits from p, and the position after the sign, the
\* integer part, the fraction and the exponent of the longest match.
RECURSIVE RunEnd(_, _)
RunEnd(s, p) == IF p <= Len(s) /\ IsDigit(s[p]) THEN RunEnd(s, p + 1) ELSE p
At(s, p, cs) == p <= Len(s) /\ s[p] \in cs
SignEnd(s) == IF At(s, 1, {"-"}) THEN 2 ELSE 1
IntegerEnd(s) == IF At(s, SignEnd(s), {"0"}) THEN SignEnd(s) + 1 ELSE RunEnd(s, SignEnd(s))
FractionEnd(s) ==
    IF At(s, IntegerEnd(s), {"."}) /\ RunEnd(s, IntegerEnd(s) + 1) > IntegerEnd(s) + 1
    THEN RunEnd(s, IntegerEnd(s) + 1) ELSE IntegerEnd(s)
ExponentDigits(s) ==
    IF At(s, FractionEnd(s) + 1, {"+", "-"}) THEN FractionEnd(s) + 2 ELSE FractionEnd(s) + 1
ExponentEnd(s) ==
    IF At(s, FractionEnd(s), {"e", "E"}) /\ RunEnd(s, ExponentDigits(s)) > ExponentDigits(s)
    THEN RunEnd(s, ExponentDigits(s)) ELSE FractionEnd(s)

\* A digit is missing in s: after the sign or where the value starts, after
\* a '.', or after an 'e' or 'E' and its sign.
DigitMissing(s) ==
    \/ IntegerEnd(s) = SignEnd(s)
    \/ At(s, IntegerEnd(s), {"."}) /\ FractionEnd(s) = IntegerEnd(s)
    \/ At(s, FractionEnd(s), {"e", "E"}) /\ ExponentEnd(s) = FractionEnd(s)

\* C16: a number text with a required digit missing (after '-', at the start
\* of the value, after '.', after 'e' or 'E' and its sign) is rejected; every
\* other one is accepted, and exactly its longest prefix matching
\* -?(0|[1-9][0-9]*)(.[0-9]+)?([eE][+-]?[0-9]+)? is consumed.
NumberIsLongestMatch ==
    (Sourced /\ text \in NumberTexts) =>
        IF DigitMissing(text) THEN ~loaded.ok
        ELSE loaded.ok /\ loaded.pos = ExponentEnd(text)

\* A number with every part has been consumed up to the character after it.
ConsumedWholeNumber ==
    /\ pc = "parsed"
    /\ text = <<"-", "1", "0", ".", "2", "5", "E", "+", "2", "x">>
    /\ loaded.pos = 10

\* The string grammar on the text s, whose first character is the opening
\* quote: the number of backslashes directly before position i, whether the
\* character at i is escaped (an odd number of them), and the quotes that
\* are not.
RECURSIVE BackslashesBefore(_, _)
BackslashesBefore(s, i) ==
    IF i > 2 /\ s[i - 1] = "\\" THEN 1 + BackslashesBefore(s, i - 1) ELSE 0
Escaped(s, i) == BackslashesBefore(s, i) % 2 = 1
ClosingQuotes(s) == {i \in 2..Len(s) : s[i] = "\"" /\ ~Escaped(s, i)}
FirstClosingQuote(s) == CHOOSE q \in ClosingQuotes(s) : \A r \in ClosingQuotes(s) : q <= r

\* Before its closing quote s has an escape other than \n \t \r \" \\, or a
\* raw newline or carriage return.
BadBeforeQuote(s) ==
    \E i \in 2..(FirstClosingQuote(s) - 1) :
        \/ s[i] \in {"\n", "\r"}
        \/ Escaped(s, i) /\ s[i] \notin {"n", "t", "r", "\"", "\\"}

\* C17: a string text is rejected when it has no closing quote (the input
\* ends first, also directly after a backslash), an unknown escape or a raw
\* newline or carriage return before it; otherwise the string ends at the
\* first quote that no backslash escapes, and its value is what the escapes
\* between the quotes denote.
StringEndsAtFirstQuote ==
    (Sourced /\ text \in StringTexts) =>
        IF ClosingQuotes(text) = {} \/ BadBeforeQuote(text) THEN ~loaded.ok
        ELSE /\ loaded.ok
             /\ loaded.pos = FirstClosingQuote(text) + 1
             /\ loaded.node.t = "string"
             /\ PrintStringChars(loaded.node.v) = SubSeq(text, 2, FirstClosingQuote(text) - 1)

\* A string with an unknown escape has been rejected.
RejectedUnknownEscape ==
    /\ pc = "rejected"
    /\ text = <<"\"", "\\", "a", "\"">>

\* The two-character escape of a character that has one, else the character.
EscapeOf(c) ==
    CASE c = "\n" -> <<"\\", "n">>
      [] c = "\t" -> <<"\\", "t">>
      [] c = "\r" -> <<"\\", "r">>
      [] c = "\"" -> <<"\\", "\"">>
      [] c = "\\" -> <<"\\", "\\">>
      [] OTHER -> <<c>>
EscapedLiteral(w) == Quoted(Cat([i \in 1..Len(w) |-> EscapeOf(w[i])]))

\* C18: Print writes newline, tab, carriage return, quote and backslash of a
\* string as two-character escapes and every other character as it is, so
\* the literal has no raw newline or carriage return, and loading what was
\* printed gives the string back, as a String and as the key of an Object.
EscapingIsSymmetric ==
    /\ (pc \in {"printed", "reloaded"} /\ doc.t = "string") =>
          /\ text = EscapedLiteral(doc.v)
          /\ \A i \in 1..Len(text) : text[i] \notin {"\n", "\r"}
    /\ (pc \in {"printed", "reloaded"} /\ doc.t = "dict") =>
          text = Cat(<<<<"{", "\n", " ", " ", " ", " ">>, EscapedLiteral(KeyOf(doc)),
                       <<":", " ", "n", "u", "l", "l", "\n", "}">>>>)
    /\ pc = "reloaded" =>
          (loaded.ok /\ loaded.node = doc /\ loaded.pos = Len(text) + 1)

\* A backslash followed by the letter n has been printed and loaded again.
ReloadedBackslashLetter ==
    /\ pc = "reloaded"
    /\ doc = StrNode(<<"\\", "n">>)
    /\ text = <<"\"", "\\", "\\", "n", "\"">>
    /\ loaded.node = doc

\* Object texts of well-formed pairs with the given commas before, between
\* and after the pairs.
ObjectTexts1(C0, C1) ==
    {ObjectText1(c0, k1, <<":">>, v1, c1) :
        c0 \in C0, k1 \in KeyTexts, v1 \in PairValues, c1 \in C1}
ObjectTexts2(C0, C1, C2) ==
    {ObjectText2(c0, k1, <<":">>, v1, c1, k2, <<":">>, v2, c2) :
        c0 \in C0, k1 \in KeyTexts, v1 \in PairValues, c1 \in C1,
        k2 \in KeyTexts, v2 \in PairValues, c2 \in C2}

\* Object texts in which the first or the second key is not followed by ':'.
MissingColonTexts ==
    {ObjectText1(c0, k1, <<>>, v1, c1) :
        c0 \in Commas, k1 \in KeyTexts, v1 \in PairValues, c1 \in Commas}
      \cup {ObjectText2(c0, k1, <<>>, v1, c1, k2, n2, v2, c2) :
              c0 \in Commas, k1 \in KeyTexts, v1 \in PairValues, c1 \in Commas,
              k2 \in KeyTexts, n2 \in Colons, v2 \in PairValues, c2 \in Commas}
      \cup {ObjectText2(c0, k1, n1, v1, c1, k2, <<>>, v2, c2) :
              c0 \in Commas, k1 \in KeyTexts, n1 \in Colons, v1 \in PairValues,
              c1 \in Commas, k2 \in KeyTexts, v2 \in PairValues, c2 \in Commas}

\* Object texts with a comma before the first pair or before '}', a doubled
\* comma, or no comma between two pairs.
SomeCommas == Commas \ {<<>>}
MisplacedCommaTexts ==
    {Cat(<<<<"{">>, c0, <<"}">>>>) : c0 \in SomeCommas}
      \cup ObjectTexts1(SomeCommas, Commas)
      \cup ObjectTexts1(Commas, SomeCommas)
      \cup ObjectTexts2(SomeCommas, Commas, Commas)
      \cup ObjectTexts2(Commas, Commas \ {<<",">>}, Commas)
      \cup ObjectTexts2(Commas, Commas, SomeCommas)

\* C19: an object text in which a key is not followed by ':', two pairs are
\* not separated by a comma, or a comma stands before the first pair, twice
\* in a row or directly before '}', is rejected.
ObjectSeparatorsAreStrict ==
    (Sourced /\ text \in MissingColonTexts \cup MisplacedCommaTexts) => ~loaded.ok

\* C20: empty and whitespace-only input is rejected, and so is every proper
\* prefix of an accepted document whose root is an array, an object or a
\* string; a rejected input gives no value.
PrematureEndIsRejected ==
    /\ (Sourced /\ text \in BlankTexts) => ~loaded.ok
    /\ (pc = "cut" /\ doc.t \in {"array", "dict", "string"}) => ~loaded.ok
    /\ ~loaded.ok => loaded = ParsingError

\* Load has rejected the array [10] cut before its closing bracket.
RejectedCutArray ==
    /\ pc = "cut"
    /\ doc = ArrayNode(<<IntNode(10)>>)
    /\ text = <<"[", "1", "0">>
    /\ ~loaded.ok

\* C21: a Load that returns has consumed the leading white space and exactly
\* one value: the stream stands on the first character after the value,
\* trailing white space included, whatever the kind of the value.
LoadStopsAfterValue ==
    \A f \in FramedTexts : (Sourced /\ text = f.text) => (loaded.ok /\ loaded.pos = f.end)

\* true between two spaces has been loaded up to the second space.
LoadedBeforeTrailingSpace ==
    /\ pc = "parsed"
    /\ text = <<" ", "t", "r", "u", "e", " ">>
    /\ loaded.node = BoolNode(TRUE)
    /\ loaded.pos = 6

\* C22: the printed text of a Double has a fraction or an exponent, also
\* when the fractional part of the Double is zero.
DoubleIsNeverIntegerShaped ==
    (pc \in {"printed", "reloaded"} /\ doc.t = "double")
        => \E i \in 1..Len(text) : text[i] \in {".", "e", "E"}

\* The layout by nesting depth: the keys K in lexicographic order, the texts
\* ts separated by comma and newline, and the text of node when it stands at
\* depth d.
InOrder(K) ==
    CHOOSE keys \in [1..Cardinality(K) -> K] :
        \A i, j \in 1..Cardinality(K) : i < j => StringLess(keys[i], keys[j])
RECURSIVE Lines(_)
Lines(ts) ==
    IF ts = <<>> THEN <<>>
    ELSE IF Len(ts) = 1 THEN ts[1]
    ELSE ts[1] \o <<",", "\n">> \o Lines(Tail(ts))
RECURSIVE Layout(_, _)
Layout(node, d) ==
    IF node.t = "array"
    THEN <<"[", "\n">>
           \o Lines([i \in 1..Len(node.v) |->
                       Repeat(" ", 4 * (d + 1)) \o Layout(node.v[i], d + 1)])
           \o <<"\n">> \o Repeat(" ", 4 * d) \o <<"]">>
    ELSE IF node.t = "dict"
    THEN LET keys == InOrder(DOMAIN node.v)
         IN <<"{", "\n">>
              \o Lines([i \in 1..Len(keys) |->
                          Repeat(" ", 4 * (d + 1)) \o EscapedLiteral(keys[i]) \o <<":", " ">>
                            \o Layout(node.v[keys[i]], d + 1)])
              \o <<"\n">> \o Repeat(" ", 4 * d) \o <<"}">>
    ELSE PrintNode(node, 0)

\* Print has written the text of doc.
Printed == pc \in {"printed", "reloaded", "reprinted", "reparsed"}

PrintIsIdempotent == [][pc' = "printed again" => text' = text]_vars

---------------------------------------------------------------------------
(* json.h: the typed accessors of Node.  An accessor returns [ok, v]; ok is
   FALSE when it throws std::logic_error.  In runs of accessor calls doc is
   the Node, lastCall the accessor called last and whether it returned, and
   result what it returned. *)

IsInt(n) == n.t = "int"
IsPureDouble(n) == n.t = "double"
IsDouble(n) == IsInt(n) \/ IsPureDouble(n)
IsBool(n) == n.t = "bool"
IsString(n) == n.t = "string"

NotA == [ok |-> FALSE, v |-> 0]
Got(v) == [ok |-> TRUE, v |-> v]

\* The conversion of an int to double.
IntToDouble(n) ==
    Normal(n < 0, IF n = -IntMax - 1 THEN IntMinText
                  ELSE IF n < 0 THEN NatToText(-n) ELSE NatToText(n), 0).v

AsInt(n) == IF ~IsInt(n) THEN NotA ELSE Got(n.v)

\* An AsDouble that takes the double alternative only.
AsPureDouble(n) == IF ~IsPureDouble(n) THEN NotA ELSE Got(n.v)

AsDouble(n) ==
    IF ~IsDouble(n) THEN NotA
    ELSE IF IsPureDouble(n) THEN Got(n.v) ELSE Got(IntToDouble(AsInt(n).v))
AsBool(n) == IF ~IsBool(n) THEN NotA ELSE Got(n.v)
AsArray(n) == IF ~IsArray(n) THEN NotA ELSE Got(n.v)
AsString(n) == IF ~IsString(n) THEN NotA ELSE Got(n.v)
AsDict(n) == IF ~IsDict(n) THEN NotA ELSE Got(n.v)

InitNode ==
    /\ root_ = Builder.root_
    /\ nodes_stack_ = Builder.nodes_stack_
    /\ lastCall = NoCall
    /\ result = Null
    /\ nbuilt = 0
    /\ calls = <<>>
    /\ frames = <<>>
    /\ text = <<>>
    /\ loaded = NoLoad
    /\ finished = {}
    /\ pc = "node"
    /\ doc \in JsonValues

\* A call of the accessor op with outcome r.
Access(op, r) ==
    /\ lastCall' = [op |-> op, ok |-> r.ok]
    /\ result' = r.v
    /\ pc' = "accessed"
    /\ UNCHANGED <<root_, nodes_stack_, nbuilt, doc, calls, frames, text, loaded, finished>>

CallAsInt == Access("AsInt", AsInt(doc))

CallAsDouble == Access("AsDouble", AsDouble(doc))

CallAsBool == Access("AsBool", AsBool(doc))

CallAsArray == Access("AsArray", AsArray(doc))

CallAsString == Access("AsString", AsString(doc))

CallAsDict == Access("AsDict", AsDict(doc))

NextNode ==
    \/ CallAsInt
    \/ CallAsDouble
    \/ CallAsBool
    \/ CallAsArray
    \/ CallAsString
    \/ CallAsDict

SpecNode == InitNode /\ [][NextNode]_vars

\* The case each accessor is the accessor of.
CaseOf(op) ==
    CASE op = "AsInt" -> "int" [] op = "AsDouble" -> "double" [] op = "AsBool" -> "bool"
      [] op = "AsArray" -> "array" [] op = "AsString" -> "string" [] op = "AsDict" -> "dict"

\* C25: an accessor returns exactly on its own case, with what the Value
\* holds, and fails on every other case, except that AsDouble returns on an
\* Int as well, with the Int as a double; AsInt fails on a Double.
AccessorsMatchCase ==
    pc = "accessed" =>
      /\ lastCall.ok <=> \/ doc.t = CaseOf(lastCall.op)
                         \/ lastCall.op = "AsDouble" /\ doc.t = "int"
      /\ (lastCall.ok /\ doc.t = CaseOf(lastCall.op)) => result = doc.v
      /\ (lastCall.op = "AsDouble" /\ doc = IntNode(-12))
            => result = DoubleNode(TRUE, <<"1", "2">>, 0).v
      /\ (lastCall.op = "AsDouble" /\ doc = IntNode(0))
            => result = DoubleNode(FALSE, <<>>, 0).v

\* AsDouble has returned the Int -12 as the double -12.
WidenedInt ==
    /\ pc = "accessed"
    /\ doc = IntNode(-12)
    /\ lastCall = [op |-> "AsDouble", ok |-> TRUE]
    /\ result = DoubleNode(TRUE, <<"1", "2">>, 0).v

\* C26: the run of letters at a value position that starts with t, f or n is
\* accepted exactly when it is true, false or null, with the value it names
\* and the character after the run left unread; a proper prefix, an
\* extension or a concatenation of literals is rejected.
LiteralIsWholeRun ==
    \A l \in LiteralTexts :
        (Sourced /\ text = l.text) =>
            CASE l.run = <<"t", "r", "u", "e">> ->
                    loaded = Parsed(BoolNode(TRUE), 5)
              [] l.run = <<"f", "a", "l", "s", "e">> ->
                    loaded = Parsed(BoolNode(FALSE), 6)
              [] l.run = <<"n", "u", "l", "l">> ->
                    loaded = Parsed(Null, 5)
              [] OTHER -> ~loaded.ok

\* The concatenation of two literals has been rejected.
RejectedTwoLiterals ==
    /\ pc = "rejected"
    /\ text = <<"t", "r", "u", "e", "f", "a", "l", "s", "e", ",">>

\* The grammar '[' ( ','? value )* ']' on the items of an array text, white
\* space apart: every comma is directly followed by a value.
Tokens(items) == SelectSeq(items, LAMBDA item : item.kind # "space")
CommasPrecedeValues(items) ==
    \A i \in 1..Len(Tokens(items)) :
        Tokens(items)[i].kind = "comma"
            => (i < Len(Tokens(items)) /\ Tokens(items)[i + 1].kind = "value")
ValuesOf(items) ==
    LET values == SelectSeq(items, LAMBDA item : item.kind = "value")
    IN [i \in 1..Len(values) |-> values[i].node]
ItemsOf(t) == (CHOOSE a \in ArrayTexts : a.text = t).items

\* C27: an array text is accepted exactly when each of its commas is directly
\* followed by a value, white space apart: values need no comma between them
\* ([1 2] is [1, 2]) and a comma before the first value is skipped, a comma
\* before ']' or before another comma is rejected; the array returned holds
\* the values in input order.
ArrayGrammarIsOptionalComma ==
    /\ (Sourced /\ text \in ArrayTextSet) =>
          IF CommasPrecedeValues(ItemsOf(text))
          THEN loaded = Parsed(ArrayNode(ValuesOf(ItemsOf(text))), Len(text) + 1)
          ELSE ~loaded.ok
    /\ (Sourced /\ text = SpacedNumbersText)
          => loaded = Parsed(ArrayNode(<<IntNode(1), IntNode(2)>>), 6)
    /\ (Sourced /\ text = CommaFirstText) => loaded = Parsed(ArrayNode(<<IntNode(1)>>), 5)
    /\ (Sourced /\ text \in {CommaLastText, CommaTwiceText}) => ~loaded.ok

\* An array of two values without a comma, after a comma, has been accepted.
AcceptedWithoutComma ==
    /\ pc = "parsed"
    /\ text = <<"[", ",", "[", "]", "\"", "a", "\"", "]">>
    /\ loaded.node = ArrayNode(<<ArrayNode(<<>>), StrNode(<<"a">>)>>)

\* C28: a builder call that throws leaves the builder as it was: the stack,
\* the tree under construction and the last built result are those of before
\* the call, so every call has the outcome it would have had without the
\* failed one.
FailedCallHasNoEffect ==
    [][~lastCall'.ok =>
          /\ root_' = root_
          /\ nodes_stack_' = nodes_stack_
          /\ result' = result
          /\ nbuilt' = nbuilt]_vars

\* EndArray has thrown on a key that awaits its value inside an open object.
FailedInsideObject ==
    /\ lastCall = [op |-> "EndArray", ok |-> FALSE]
    /\ IsDict(root_)
    /\ AwaitingValue(this)

---------------------------------------------------------------------------
(* Finished positions: the builder is called freely, as under Spec, and
   finished keeps every position that a returning EndArray or EndDict has
   closed or a returning Value has stored, with the value it had then. *)

InitFinish ==
    /\ root_ = Builder.root_
    /\ nodes_stack_ = Builder.nodes_stack_
    /\ lastCall = NoCall
    /\ result = Null
    /\ nbuilt = 0
    /\ doc = Null
    /\ calls = <<>>
    /\ frames = <<>>
    /\ pc = "finishing"
    /\ text = <<>>
    /\ loaded = NoLoad
    /\ finished = {}

\* A mutating call with outcome r that finishes the positions of done.
Finish(op, r, done) ==
    /\ r.ok => Fits(r)
    /\ root_' = r.root_
    /\ nodes_stack_' = r.nodes_stack_
    /\ lastCall' = [op |-> op, ok |-> r.ok]
    /\ finished' = IF r.ok THEN finished \cup done ELSE finished
    /\ UNCHANGED <<result, nbuilt, doc, calls, frames, pc, text>>
    /\ UNCHANGED loaded

\* The position nodes_stack_.back() with its value: what a returning End call
\* pops.
Popped(b) == {[path |-> Last(b.nodes_stack_), node |-> GetCurValue(b)]}

\* Where a returning Value puts its argument: behind the elements of the
\* array on top of the stack, or at nodes_stack_.back() itself.
Stored(b, value) ==
    LET top == Last(b.nodes_stack_)
    IN {[path |-> IF IsArray(GetCurValue(b))
                  THEN Append(top, IdxStep(Len(GetCurValue(b).v) + 1))
                  ELSE top,
         node |-> value]}

FinishStartDict == Finish("StartDict", StartDict(this), {})

FinishStartArray == Finish("StartArray", StartArray(this), {})

FinishEndDict == Finish("EndDict", EndDict(this), Popped(this))

FinishEndArray == Finish("EndArray", EndArray(this), Popped(this))

FinishKey == \E key \in Keys : Finish("Key", Key(this, key), {})

FinishValue ==
    \E value \in ValueArgs : Finish("Value", Value(this, value), Stored(this, value))

FinishBuild ==
    LET r == Build(this)
    IN /\ nbuilt < MaxBuilds
       /\ lastCall' = [op |-> "Build", ok |-> r.ok]
       /\ nodes_stack_' = r.nodes_stack_
       /\ IF r.ok
          THEN /\ result' = r.root_
               /\ nbuilt' = nbuilt + 1
               /\ root_' \in MovedFrom(root_)
          ELSE UNCHANGED <<result, nbuilt, root_>>
       /\ UNCHANGED <<doc, calls, frames, pc, text, loaded, finished>>

NextFinish ==
    \/ FinishStartDict
    \/ FinishStartArray
    \/ FinishEndDict
    \/ FinishEndArray
    \/ FinishKey
    \/ FinishValue
    \/ FinishBuild

SpecFinish == InitFinish /\ [][NextFinish]_vars

\* C29: a position that EndArray or EndDict has closed, or where Value has
\* stored its argument, keeps the value it had then under every later call
\* of the builder, up to the Build that moves the tree out: only positions
\* open on the stack change.
FinishedNeverChanges ==
    nbuilt = 0 => \A f \in finished : NodeAt(root_, f.path) = f.node

\* Some mutating call returns on the builder b.
SomeCallReturns(b) ==
    \/ StartArray(b).ok
    \/ StartDict(b).ok
    \/ EndArray(b).ok
    \/ EndDict(b).ok
    \/ \E key \in Keys : Key(b, key).ok
    \/ \E value \in ValueArgs : Value(b, value).ok

\* C30: the builder never gets stuck: in every reachable state whose stack is
\* not empty at least one of StartArray, StartDict, Key, Value, EndArray and
\* EndDict returns, which every sequence of calls that leads to a returning
\* Build has to start with.
BuilderNeverStuck == nodes_stack_ # <<>> => SomeCallReturns(this)

===========================================================================
